---- MODULE Spec2Model ----
(***************************************************************************)
(* The stdio JSON-RPC server of mcp-server-gemini (class GeminiMCPServer). *)
(*                                                                         *)
(* A JavaScript string is a sequence of pieces (<<"Unknown tool: ",        *)
(* "nope">>), so that concatenation, startsWith and "contains" are         *)
(* computed; the empty string is <<>>.  A JSON object is a function from   *)
(* field names; an absent field is a name outside its DOMAIN.  An id       *)
(* handed to a handler is a sequence of at most one value: <<>> is an      *)
(* undefined id, which JSON.stringify leaves out of the envelope.          *)
(***************************************************************************)
EXTENDS Integers, Sequences, FiniteSets, Bags, TLC

\* ---------------------------------------------------------------- bounds
MaxLines == 3
MaxInflight == 2

\* --------------------------------------------------------------- strings
PARSE_ERROR == -32700
METHOD_NOT_FOUND == -32601
INVALID_PARAMS == -32602
INTERNAL_ERROR == -32603
PARSE_ERROR_ID == 0

\* the three backquotes of a Markdown fence (a TLA+ string cannot hold the character)
FENCE == <<"[fence]">>

startsWith(s, prefix) ==
    /\ Len(s) >= Len(prefix)
    /\ SubSeq(s, 1, Len(prefix)) = prefix

Includes(s, part) == \E i \in 1..Len(s) : \E j \in i-1..Len(s) : SubSeq(s, i, j) = part

Has(obj, field) == field \in DOMAIN obj

\* the value a template literal interpolates for obj.field
Interpolate(obj, field) == IF Has(obj, field) THEN obj[field] ELSE <<"undefined">>

\* JavaScript truthiness of obj.field for a string field
Truthy(obj, field) == Has(obj, field) /\ obj[field] # <<>>

\* ------------------------------------------------------------- envelopes
Null == [null |-> TRUE]

Envelope(id, body) ==
    IF id = <<>> THEN [jsonrpc |-> "2.0"] @@ body
    ELSE [jsonrpc |-> "2.0", id |-> id[1]] @@ body

\* mutant: the error envelope also carries a result field
errorResponseWithResult(id, code, message) ==
    Envelope(id, [result |-> Null, error |-> [code |-> code, message |-> message]])

errorResponse(id, code, message) ==
    Envelope(id, [error |-> [code |-> code, message |-> message]])

\* mutant: the text is returned bare, without the content array
textResultBare(id, text) ==
    Envelope(id, [result |-> [type |-> "text", text |-> text]])

textResult(id, text) ==
    Envelope(id, [result |-> [content |-> <<[type |-> "text", text |-> text]>>]])

\* mutant: the catch answers Invalid Request instead of Parse error
parseErrorResponseInvalidRequest ==
    [jsonrpc |-> "2.0", id |-> PARSE_ERROR_ID,
     error |-> [code |-> -32600, message |-> <<"Invalid Request">>]]

parseErrorResponse ==
    [jsonrpc |-> "2.0", id |-> PARSE_ERROR_ID,
     error |-> [code |-> PARSE_ERROR, message |-> <<"Parse error">>]]

requestId(request) == IF Has(request, "id") THEN <<request.id>> ELSE <<>>

\* ------------------------------------------------------------------ state
VARIABLES
    chatSessions,   \* Map<string, ChatSession>: session key -> object reference
    heap,           \* the ChatSession objects: reference -> history (sequence of turns)
    inflight,       \* the line handlers suspended at an await (a bag of tasks)
    emitted,        \* the lines console.log wrote in the last step
    last,           \* the event of the last step: the line read, or the await that settled
    nIn,            \* number of lines read so far
    nOut,           \* number of lines written so far
    observed        \* history kept by SpecObserved (whether an initialize request has
                    \* been read, the dispatch of the last line and one remembered
                    \* earlier dispatch) and by SpecIds (the ids read and answered)

vars == <<chatSessions, heap, inflight, emitted, last, nIn, nOut, observed>>

\* ---------------------------------------------------------- tool catalog
Tool(name, required) == [name |-> <<name>>, required |-> required]

ToolCatalog == <<
    Tool("generate_text", <<"prompt">>),
    Tool("analyze_image", <<>>),
    Tool("extract_text_from_image", <<>>),
    Tool("compare_images", <<"images">>),
    Tool("generate_code", <<"prompt">>),
    Tool("explain_code", <<"code">>),
    Tool("refactor_code", <<"code">>),
    Tool("convert_code", <<"code", "targetLanguage">>),
    Tool("chat", <<"message">>),
    Tool("clear_chat_history", <<>>),
    Tool("summarize_conversation", <<>>),
    Tool("translate_text", <<"text", "targetLanguage">>),
    Tool("summarize_text", <<"text">>),
    Tool("rewrite_text", <<"text", "style">>),
    Tool("generate_structured_data", <<"prompt">>),
    Tool("check_content_safety", <<"content">>),
    Tool("moderate_text", <<"text">>) >>

\* ------------------------------------------------- synchronous handlers
\* mutant: initialize advertises resources and prompts as well
handleInitializeAllCapabilities(request) ==
    Envelope(requestId(request),
        [result |-> [protocolVersion |-> <<"2024-11-05">>,
                     serverInfo |-> [name |-> <<"gemini-2.5-pro-mcp-server">>,
                                     version |-> <<"2.5.0">>],
                     capabilities |-> [tools |-> <<>>, resources |-> <<>>,
                                       prompts |-> <<>>]]])

handleInitialize(request) ==
    Envelope(requestId(request),
        [result |-> [protocolVersion |-> <<"2024-11-05">>,
                     serverInfo |-> [name |-> <<"gemini-2.5-pro-mcp-server">>,
                                     version |-> <<"2.5.0">>],
                     capabilities |-> [tools |-> <<>>]]])

\* mutant: generate_text is left out of the list while a session exists
handleToolsListBySessions(request) ==
    Envelope(requestId(request),
        [result |-> [tools |-> IF chatSessions = <<>> THEN ToolCatalog
                               ELSE SelectSeq(ToolCatalog,
                                        LAMBDA tool : tool.name # <<"generate_text">>)]])

\* mutant: the list advertises one tool more than the dispatcher knows
handleToolsListWithCountTokens(request) ==
    Envelope(requestId(request),
        [result |-> [tools |-> Append(ToolCatalog, Tool("count_tokens", <<"text">>))]])

handleToolsList(request) ==
    Envelope(requestId(request), [result |-> [tools |-> ToolCatalog]])

\* mutant: resources/list and prompts/list answer an empty list
notImplementedEmptyList(request) ==
    Envelope(requestId(request), [result |-> [resources |-> <<>>, prompts |-> <<>>]])

\* the answer to resources/list and prompts/list
notImplemented(request) ==
    Envelope(requestId(request),
        [error |-> [code |-> METHOD_NOT_FOUND, message |-> <<"Method not found">>]])

\* mutant: the default branch answers Invalid Request
methodNotFoundInvalidRequest(request) ==
    Envelope(requestId(request),
        [error |-> [code |-> -32600, message |-> <<"Invalid Request">>]])

\* the default branch of the switch on request.method
methodNotFound(request) ==
    Envelope(requestId(request),
        [error |-> [code |-> METHOD_NOT_FOUND, message |-> <<"Method not found">>]])

\* ------------------------------------------------------ handler outcomes
\* What a handler has done when it returns or first suspends: the response it
\* returned (if it returned), the await it is suspended at (if it suspended),
\* and the session store it leaves.
Done(response) ==
    [response |-> <<response>>, task |-> <<>>, chatSessions |-> chatSessions, heap |-> heap]

Await(task) ==
    [response |-> <<>>, task |-> <<task>>, chatSessions |-> chatSessions, heap |-> heap]

\* fn: the handler holding the await; pc: what it awaits; chat: the ChatSession
\* it holds (0: none); message: the argument of sendMessage (<<>>: undefined);
\* validate: generateStructuredData will JSON.parse the text.
Task(fn, id, pc) ==
    [fn |-> fn, id |-> id, pc |-> pc, chat |-> 0, message |-> <<>>, validate |-> FALSE]

\* --------------------------------------------------------- tool handlers
Default(args, field, value) == IF Has(args, field) THEN args[field] ELSE value

RECURSIVE join(_, _)
join(list, sep) ==
    IF list = <<>> THEN <<>>
    ELSE IF Len(list) = 1 THEN list[1]
    ELSE list[1] \o sep \o join(Tail(list), sep)

toUpperCase(s) ==
    [i \in DOMAIN s |->
        CASE s[i] = "json" -> "JSON"
          [] s[i] = "yaml" -> "YAML"
          [] s[i] = "csv" -> "CSV"
          [] OTHER -> s[i]]

generateText(id, args) ==
    IF ~Truthy(args, "prompt")
    THEN Done(errorResponse(id, INVALID_PARAMS, <<"Missing prompt parameter">>))
    ELSE Await(Task("generateText", id, "generateContent"))

\* mutant: without image data the prompt alone is sent to the backend
analyzeImagePromptOnly(id, args) ==
    IF Truthy(args, "imagePath")
    THEN Await(Task("analyzeImage", id, "readFile"))
    ELSE Await(Task("analyzeImage", id, "generateContent"))

analyzeImage(id, args) ==
    IF Truthy(args, "imagePath")
    THEN Await(Task("analyzeImage", id, "readFile"))
    ELSE IF Truthy(args, "imageBase64")
    THEN Await(Task("analyzeImage", id, "generateContent"))
    ELSE Done(errorResponse(id, INVALID_PARAMS, <<"Missing image data">>))

extractTextFromImage(id, args) ==
    analyzeImage(id,
        [prompt |-> <<"Extract all text from this image. Provide only the extracted text without any additional commentary.">>]
        @@ args)

compareImages(id, args) ==
    IF ~Has(args, "images") \/ Len(args.images) < 2
    THEN Done(errorResponse(id, INVALID_PARAMS, <<"At least 2 images required">>))
    ELSE IF \E i \in 1..Len(args.images) : Truthy(args.images[i], "path")
    THEN Await(Task("compareImages", id, "readFile"))
    ELSE Await(Task("compareImages", id, "generateContent"))

generateCode(id, args) ==
    generateText(id, [prompt |->
        <<"Generate ">> \o Default(args, "language", <<"python">>) \o <<" code">>
        \o (IF Truthy(args, "framework") THEN <<" using ">> \o args.framework ELSE <<>>)
        \o <<" for the following requirement:\n\n">> \o Interpolate(args, "prompt")
        \o <<"\n\nProvide only the code with appropriate comments. Use best practices and proper error handling.">>])

explainCode(id, args) ==
    generateText(id, [prompt |->
        <<"Explain the following">>
        \o (IF Truthy(args, "language") THEN <<" ">> \o args.language ELSE <<>>)
        \o <<" code in detail:\n\n">> \o FENCE \o Default(args, "language", <<>>) \o <<"\n">>
        \o Interpolate(args, "code")
        \o <<"\n">> \o FENCE \o <<"\n\nProvide a comprehensive explanation including what it does, how it works, and any important considerations.">>])

refactorCode(id, args) ==
    LET goals == Default(args, "goals", <<>>)
        goalsList == IF Len(goals) > 0
                     THEN <<"\nRefactoring goals: ">> \o join(goals, <<", ">>)
                     ELSE <<>>
    IN  generateText(id, [prompt |->
            <<"Refactor the following">>
            \o (IF Truthy(args, "language") THEN <<" ">> \o args.language ELSE <<>>)
            \o <<" code">> \o goalsList \o <<":\n\n">> \o FENCE
            \o Default(args, "language", <<>>) \o <<"\n">> \o Interpolate(args, "code")
            \o <<"\n">> \o FENCE \o <<"\n\nProvide the refactored code with explanations of the changes made.">>])

convertCode(id, args) ==
    generateText(id, [prompt |->
        <<"Convert the following code from ">>
        \o (IF Truthy(args, "sourceLanguage") THEN args.sourceLanguage
            ELSE <<"the source language">>)
        \o <<" to ">> \o Interpolate(args, "targetLanguage") \o <<":\n\n">> \o FENCE
        \o Default(args, "sourceLanguage", <<>>) \o <<"\n">> \o Interpolate(args, "code")
        \o <<"\n">> \o FENCE \o <<"\n\nProvide the converted code maintaining the same functionality and using idiomatic ">>
        \o Interpolate(args, "targetLanguage") \o <<" patterns.">>])

translateText(id, args) ==
    generateText(id, [prompt |->
        <<"Translate the following text">>
        \o (IF Truthy(args, "sourceLanguage") THEN <<" from ">> \o args.sourceLanguage
            ELSE <<>>)
        \o <<" to ">> \o Interpolate(args, "targetLanguage")
        \o <<". Provide only the translation without any additional explanation:\n\n">>
        \o Interpolate(args, "text")])

styleInstructions(style) ==
    CASE style = <<"brief">> -> <<"Provide a brief summary in 2-3 sentences">>
      [] style = <<"detailed">> -> <<"Provide a detailed summary covering all main points">>
      [] style = <<"bullet-points">> -> <<"Provide a summary using bullet points">>
      [] style = <<"executive">> -> <<"Provide an executive summary suitable for business readers">>
      [] OTHER -> <<"undefined">>

summarizeText(id, args) ==
    generateText(id, [prompt |->
        styleInstructions(Default(args, "style", <<"brief">>))
        \o (IF Truthy(args, "maxLength")
            THEN <<" in no more than ">> \o args.maxLength \o <<" words">> ELSE <<>>)
        \o <<" of the following text:\n\n">> \o Interpolate(args, "text")])

rewriteText(id, args) ==
    generateText(id, [prompt |->
        <<"Rewrite the following text in a ">> \o Interpolate(args, "style") \o <<" style">>
        \o (IF Truthy(args, "targetAudience") THEN <<" for ">> \o args.targetAudience
            ELSE <<>>)
        \o <<":\n\n">> \o Interpolate(args, "text")])

generateStructuredData(id, args) ==
    LET format == Default(args, "format", <<"json">>)
        schemaInstruction ==
            IF Has(args, "schema") THEN <<"\n\nFollow this schema:\n">> \o args.schema
            ELSE <<>>
        result == generateText(id, [prompt |->
            <<"Generate ">> \o toUpperCase(format) \o <<" data for: ">>
            \o Interpolate(args, "prompt") \o schemaInstruction
            \o <<"\n\nProvide only the ">> \o format
            \o <<" data without any markdown code blocks or additional explanation.">>])
    IN  IF result.task = <<>> THEN result
        ELSE Await([result.task[1] EXCEPT !.validate = (format = <<"json">>)])

checkContentSafety(id, args) ==
    generateText(id, [prompt |->
        <<"Analyze the following content for safety issues in these categories: ">>
        \o join(Default(args, "categories",
                        << <<"harassment">>, <<"hate">>, <<"sexual">>, <<"dangerous">> >>),
                <<", ">>)
        \o <<". \n    \nContent: \"">> \o Interpolate(args, "content")
        \o <<"\"\n\nProvide a safety assessment with:\n1. Overall safety rating (safe/caution/unsafe)\n2. Specific concerns for each category\n3. Recommendations if any issues are found\n\nFormat as JSON.">>])

levelInstructions(level) ==
    CASE level = <<"strict">> -> <<"Remove or modify any potentially inappropriate content">>
      [] level = <<"moderate">> -> <<"Clean up obviously inappropriate content while preserving meaning">>
      [] level = <<"lenient">> -> <<"Only remove explicit inappropriate content">>
      [] OTHER -> <<"undefined">>

moderateText(id, args) ==
    generateText(id, [prompt |->
        levelInstructions(Default(args, "level", <<"moderate">>))
        \o <<" in the following text. Return the cleaned version:\n\n">>
        \o Interpolate(args, "text")])

\* ---------------------------------------------------------------- chat
Restrict(f, keys) == IF keys = {} THEN <<>> ELSE [k \in keys |-> f[k]]

NewRef == CHOOSE ref \in 1..(Cardinality(DOMAIN heap) + 1) : ref \notin DOMAIN heap

startChat(args) ==
    IF Truthy(args, "systemPrompt")
    THEN << [role |-> "user", text |-> <<"System: ">> \o args.systemPrompt],
            [role |-> "model", text |-> <<"Understood. I will follow these instructions.">>] >>
    ELSE <<>>

\* mutant: a systemPrompt on a chat to an existing session seeds it again
chatSeedsAgain(id, args) ==
    LET sessionId == Default(args, "sessionId", <<"default">>)
        has == sessionId \in DOMAIN chatSessions
        session == IF has THEN chatSessions[sessionId] ELSE NewRef
    IN  [response |-> <<>>,
         task |-> <<[Task("chat", id, "sendMessage") EXCEPT
                        !.chat = session,
                        !.message = IF Has(args, "message") THEN <<args.message>> ELSE <<>>]>>,
         chatSessions |-> IF has THEN chatSessions ELSE (sessionId :> session) @@ chatSessions,
         heap |-> IF has THEN [heap EXCEPT ![session] = @ \o startChat(args)]
                  ELSE (session :> startChat(args)) @@ heap]

\* mutant: every chat starts a session and registers it over the old one
chatAlwaysStarts(id, args) ==
    LET sessionId == Default(args, "sessionId", <<"default">>)
        session == NewRef
    IN  [response |-> <<>>,
         task |-> <<[Task("chat", id, "sendMessage") EXCEPT
                        !.chat = session,
                        !.message = IF Has(args, "message") THEN <<args.message>> ELSE <<>>]>>,
         chatSessions |-> (sessionId :> session) @@ chatSessions,
         heap |-> (session :> startChat(args)) @@ heap]

chat(id, args) ==
    LET sessionId == Default(args, "sessionId", <<"default">>)
        has == sessionId \in DOMAIN chatSessions
        session == IF has THEN chatSessions[sessionId] ELSE NewRef
    IN  [response |-> <<>>,
         task |-> <<[Task("chat", id, "sendMessage") EXCEPT
                        !.chat = session,
                        !.message = IF Has(args, "message") THEN <<args.message>> ELSE <<>>]>>,
         chatSessions |-> IF has THEN chatSessions ELSE (sessionId :> session) @@ chatSessions,
         heap |-> IF has THEN heap ELSE (session :> startChat(args)) @@ heap]

\* mutant: only the default session can be cleared
clearChatHistoryDefaultOnly(id, args) ==
    LET sessionId == Default(args, "sessionId", <<"default">>)
    IN  [Done(textResult(id, <<"Chat history cleared for session: ">> \o sessionId))
            EXCEPT !.chatSessions = Restrict(chatSessions, DOMAIN chatSessions \ {<<"default">>})]

\* mutant: clearing one session empties the whole map
clearChatHistoryAll(id, args) ==
    LET sessionId == Default(args, "sessionId", <<"default">>)
    IN  [Done(textResult(id, <<"Chat history cleared for session: ">> \o sessionId))
            EXCEPT !.chatSessions = <<>>]

\* mutant: the history is emptied in place and the key keeps its session
clearChatHistoryInPlace(id, args) ==
    LET sessionId == Default(args, "sessionId", <<"default">>)
    IN  [Done(textResult(id, <<"Chat history cleared for session: ">> \o sessionId))
            EXCEPT !.heap = IF sessionId \in DOMAIN chatSessions
                            THEN [heap EXCEPT ![chatSessions[sessionId]] = <<>>]
                            ELSE heap]

\* mutant: clearing a key that has no session is an error
clearChatHistoryNeedsSession(id, args) ==
    LET sessionId == Default(args, "sessionId", <<"default">>)
    IN  IF sessionId \notin DOMAIN chatSessions
        THEN Done(errorResponse(id, INVALID_PARAMS, <<"No chat history found for this session">>))
        ELSE [Done(textResult(id, <<"Chat history cleared for session: ">> \o sessionId))
                EXCEPT !.chatSessions = Restrict(chatSessions, DOMAIN chatSessions \ {sessionId})]

clearChatHistory(id, args) ==
    LET sessionId == Default(args, "sessionId", <<"default">>)
    IN  [Done(textResult(id, <<"Chat history cleared for session: ">> \o sessionId))
            EXCEPT !.chatSessions = Restrict(chatSessions, DOMAIN chatSessions \ {sessionId})]

\* mutant: a session whose history is still empty counts as no session
summarizeConversationNeedsTurns(id, args) ==
    LET sessionId == Default(args, "sessionId", <<"default">>)
    IN  IF sessionId \notin DOMAIN chatSessions \/ heap[chatSessions[sessionId]] = <<>>
        THEN Done(errorResponse(id, INVALID_PARAMS, <<"No chat history found for this session">>))
        ELSE Await([Task("summarizeConversation", id, "sendMessage") EXCEPT
                        !.chat = chatSessions[sessionId],
                        !.message = << <<"Please provide a concise summary of our conversation so far.">> >>])

\* mutant: summarize_conversation without sessionId looks for the key "main"
summarizeConversationOwnDefault(id, args) ==
    LET sessionId == Default(args, "sessionId", <<"main">>)
    IN  IF sessionId \notin DOMAIN chatSessions
        THEN Done(errorResponse(id, INVALID_PARAMS, <<"No chat history found for this session">>))
        ELSE Await([Task("summarizeConversation", id, "sendMessage") EXCEPT
                        !.chat = chatSessions[sessionId],
                        !.message = << <<"Please provide a concise summary of our conversation so far.">> >>])

summarizeConversation(id, args) ==
    LET sessionId == Default(args, "sessionId", <<"default">>)
    IN  IF sessionId \notin DOMAIN chatSessions
        THEN Done(errorResponse(id, INVALID_PARAMS, <<"No chat history found for this session">>))
        ELSE Await([Task("summarizeConversation", id, "sendMessage") EXCEPT
                        !.chat = chatSessions[sessionId],
                        !.message = << <<"Please provide a concise summary of our conversation so far.">> >>])

\* ------------------------------------------------------------ dispatcher
\* mutant: the unknown-tool message leaves the name out
unknownToolNoName(request) ==
    errorResponse(requestId(request), INVALID_PARAMS, <<"Unknown tool">>)

\* mutant: without params the name cannot be read and the listener's catch
\* answers
unknownToolNeedsParams(request) ==
    IF Has(request, "params")
    THEN errorResponse(requestId(request), INVALID_PARAMS,
            <<"Unknown tool: ">> \o Interpolate(request.params, "name"))
    ELSE parseErrorResponse

unknownTool(request) ==
    errorResponse(requestId(request), INVALID_PARAMS,
        <<"Unknown tool: ">>
        \o (IF Has(request, "params") THEN Interpolate(request.params, "name")
            ELSE <<"undefined">>))

handleToolsCall(request) ==
    LET hasName == Has(request, "params") /\ Has(request.params, "name")
        toolName == IF hasName THEN request.params.name ELSE <<>>
        args == IF Has(request, "params") /\ Has(request.params, "arguments")
                THEN request.params.arguments ELSE <<>>
        id == requestId(request)
    IN      CASE ~hasName -> Done(unknownTool(request))
              [] toolName = <<"generate_text">> -> generateText(id, args)
              [] toolName = <<"analyze_image">> -> analyzeImage(id, args)
              [] toolName = <<"extract_text_from_image">> -> extractTextFromImage(id, args)
              [] toolName = <<"compare_images">> -> compareImages(id, args)
              [] toolName = <<"generate_code">> -> generateCode(id, args)
              [] toolName = <<"explain_code">> -> explainCode(id, args)
              [] toolName = <<"refactor_code">> -> refactorCode(id, args)
              [] toolName = <<"convert_code">> -> convertCode(id, args)
              [] toolName = <<"chat">> -> chat(id, args)
              [] toolName = <<"clear_chat_history">> -> clearChatHistory(id, args)
              [] toolName = <<"summarize_conversation">> -> summarizeConversation(id, args)
              [] toolName = <<"translate_text">> -> translateText(id, args)
              [] toolName = <<"summarize_text">> -> summarizeText(id, args)
              [] toolName = <<"rewrite_text">> -> rewriteText(id, args)
              [] toolName = <<"generate_structured_data">> -> generateStructuredData(id, args)
              [] toolName = <<"check_content_safety">> -> checkContentSafety(id, args)
              [] toolName = <<"moderate_text">> -> moderateText(id, args)
              [] OTHER -> Done(unknownTool(request))

\* mutant: the catch interpolates error.message whatever was thrown
handleToolsCallCatchAnyMessage(id, error) ==
    errorResponse(id, INTERNAL_ERROR,
        <<"Error: ">> \o (IF error.isError THEN error.message ELSE <<"undefined">>))

\* mutant: the catch answers with the id 1
handleToolsCallCatchFixedId(id, error) ==
    errorResponse(<<1>>, INTERNAL_ERROR,
        <<"Error: ">> \o (IF error.isError THEN error.message ELSE <<"Unknown error">>))

\* the catch of handleToolsCall: error is what the awaited promise rejected with
handleToolsCallCatch(id, error) ==
    errorResponse(id, INTERNAL_ERROR,
        <<"Error: ">> \o (IF error.isError THEN error.message ELSE <<"Unknown error">>))

\* mutant: only notifications/initialized is taken for a notification
isNotificationInitialized(request) == request.method = <<"notifications/", "initialized">>

isNotification(request) == startsWith(request.method, <<"notifications/">>)

\* mutant: tools/list and tools/call are refused until initialize has been read
handleRequestGated(request) ==
    IF isNotification(request) THEN Done(Null)
    ELSE CASE request.method = <<"initialize">> -> Done(handleInitialize(request))
           [] request.method \in {<<"tools/list">>, <<"tools/call">>} /\ ~observed.initialized ->
                Done(errorResponse(requestId(request), -32002, <<"Server not initialized">>))
           [] request.method = <<"tools/list">> -> Done(handleToolsList(request))
           [] request.method = <<"tools/call">> -> handleToolsCall(request)
           [] request.method \in {<<"resources/list">>, <<"prompts/list">>} ->
                Done(notImplemented(request))
           [] OTHER -> Done(methodNotFound(request))

handleRequest(request) ==
    IF isNotification(request) THEN Done(Null)
    ELSE CASE request.method = <<"initialize">> -> Done(handleInitialize(request))
           [] request.method = <<"tools/list">> -> Done(handleToolsList(request))
           [] request.method = <<"tools/call">> -> handleToolsCall(request)
           [] request.method \in {<<"resources/list">>, <<"prompts/list">>} ->
                Done(notImplemented(request))
           [] OTHER -> Done(methodNotFound(request))

\* ----------------------------------------------------------- input lines
\* A line of standard input: text that is not JSON, or the JSON text of a value.
NotJson == [json |-> FALSE, value |-> Null]
Json(value) == [json |-> TRUE, value |-> value]

Request(id, method) == [jsonrpc |-> "2.0", id |-> id, method |-> method]
RequestNoId(method) == [jsonrpc |-> "2.0", method |-> method]
RequestParams(id, method, params) ==
    [jsonrpc |-> "2.0", id |-> id, method |-> method, params |-> params]
Call(id, name, arguments) ==
    RequestParams(id, <<"tools/call">>, [name |-> <<name>>, arguments |-> arguments])

Hi == <<"hi">>
S1 == <<"s1">>

MalformedLines ==
    { NotJson,
      Json(Null),
      Json([jsonrpc |-> "2.0", id |-> 1, params |-> [name |-> <<"chat">>]]) }

SomeParams == [name |-> <<"chat">>, arguments |-> [message |-> Hi]]

PlainLines ==
    { Json(Request(1, m)) :
        m \in { <<"initialize">>, <<"tools/list">>, <<"resources/list">>, <<"prompts/list">>,
                <<"notifications/", "initialized">>, <<"notifications/">>,
                <<"notifications">>, <<"exit">>, <<"shutdown">>, <<"ping">> } }
    \cup { Json(RequestNoId(m)) :
        m \in { <<"initialize">>, <<"notifications/", "initialized">>, <<"exit">>,
                <<"ping">> } }
    \cup { Json(RequestParams(2, m, SomeParams)) :
        m \in { <<"initialize">>, <<"tools/list">>, <<"prompts/list">>,
                <<"notifications/", "cancelled">>, <<"exit">> } }

ChatLines ==
    { Json(Call(1, "chat", [message |-> Hi])),
      Json(Call(2, "chat", [message |-> Hi, sessionId |-> S1])),
      Json(Call(1, "chat", [message |-> Hi, sessionId |-> S1, systemPrompt |-> <<"be brief">>])),
      Json(Call(2, "chat", [sessionId |-> S1])),
      Json(Call(1, "clear_chat_history", <<>>)),
      Json(Call(2, "clear_chat_history", [sessionId |-> S1])),
      Json(Call(1, "summarize_conversation", <<>>)),
      Json(Call(2, "summarize_conversation", [sessionId |-> S1])),
      Json(Call(2, "clear_chat_history", [sessionId |-> <<"default">>])),
      Json(Call(2, "summarize_conversation", [sessionId |-> <<"default">>])) }

TextLines ==
    { Json(Call(1, "generate_text", [prompt |-> Hi])),
      Json(Call(1, "generate_text", [prompt |-> <<>>])),
      Json(Call(1, "generate_text", <<>>)),
      Json(Call(1, "generate_code", [prompt |-> Hi])),
      Json(Call(1, "generate_code", <<>>)),
      Json(Call(1, "explain_code", [code |-> Hi, language |-> <<"c">>])),
      Json(Call(1, "refactor_code", [code |-> Hi, goals |-> << <<"speed">>, <<"size">> >>])),
      Json(Call(1, "convert_code", [code |-> Hi, targetLanguage |-> <<"go">>])),
      Json(Call(1, "translate_text", [text |-> Hi, targetLanguage |-> <<"fr">>])),
      Json(Call(1, "translate_text", <<>>)),
      Json(Call(1, "summarize_text", [text |-> Hi])),
      Json(Call(1, "rewrite_text", [text |-> Hi, style |-> <<"formal">>])),
      Json(Call(1, "generate_structured_data", [prompt |-> Hi])),
      Json(Call(1, "generate_structured_data", [prompt |-> Hi, format |-> <<"yaml">>])),
      Json(Call(1, "generate_structured_data", [prompt |-> Hi, format |-> <<"json">>])),
      Json(Call(1, "check_content_safety", [content |-> Hi])),
      Json(Call(1, "moderate_text", [text |-> Hi])) }

ImageLines ==
    { Json(Call(1, "analyze_image", [imagePath |-> <<"a.png">>])),
      Json(Call(1, "analyze_image", [imageBase64 |-> <<"QUJD">>])),
      Json(Call(1, "analyze_image", <<>>)),
      Json(Call(1, "extract_text_from_image", [imagePath |-> <<"a.png">>])),
      Json(Call(2, "extract_text_from_image", <<>>)),
      Json(Call(1, "compare_images", <<>>)),
      Json(Call(1, "compare_images", [images |-> << [path |-> <<"a.png">>] >>])),
      Json(Call(1, "compare_images",
                [images |-> << [path |-> <<"a.png">>], [base64 |-> <<"QUJD">>] >>])),
      Json(Call(1, "compare_images",
                [images |-> << [base64 |-> <<"QUJD">>], [base64 |-> <<"QUJD">>] >>])),
      Json(Call(2, "compare_images",
                [images |-> [i \in 1..6 |-> [base64 |-> <<"QUJD">>]]])) }

UnknownToolLines ==
    { Json(Call(1, "nope", <<>>)),
      Json(Call(2, "resources/list", [message |-> Hi])),
      Json(RequestParams(1, <<"tools/call">>, [arguments |-> [message |-> Hi]])),
      Json(RequestNoId(<<"tools/call">>)) }

\* tools/call requests without params, with empty params, and with a name but
\* no arguments
BareCallLines ==
    { Json(Request(1, <<"tools/call">>)),
      Json(RequestParams(2, <<"tools/call">>, <<>>)),
      Json(RequestParams(1, <<"tools/call">>, [name |-> <<"generate_text">>])),
      Json(RequestParams(1, <<"tools/call">>, [name |-> <<"clear_chat_history">>])),
      Json(RequestParams(1, <<"tools/call">>, [name |-> <<"summarize_conversation">>])) }

Lines == MalformedLines \cup PlainLines \cup ChatLines \cup TextLines \cup ImageLines
         \cup UnknownToolLines \cup BareCallLines

\* ------------------------------------------------------------- backend
\* What the generation backend can answer, and what an await can reject with.
Texts == { <<"{\"a\": 1}">>, <<"plain words">> }
jsonParses(text) == text \in { <<"{\"a\": 1}">> }

Errors == { [isError |-> TRUE, message |-> <<"fetch failed">>],
            [isError |-> FALSE, message |-> <<>>] }

\* ---------------------------------------------------------- line handler
\* console.log of a response, unless handleRequest returned null
writeResponse(response) == IF response # Null THEN <<response>> ELSE <<>>

\* mutant: the catch also runs after a response has been written
lineHandlerFallsThrough(line) ==
    IF ~line.json \/ ~Has(line.value, "method")
    THEN [written |-> <<parseErrorResponse>>, task |-> <<>>,
          chatSessions |-> chatSessions, heap |-> heap]
    ELSE LET outcome == handleRequest(line.value)
         IN  [written |-> IF outcome.response = <<>> THEN <<>>
                          ELSE writeResponse(outcome.response[1]) \o <<parseErrorResponse>>,
              task |-> outcome.task,
              chatSessions |-> outcome.chatSessions, heap |-> outcome.heap]

\* The listener of rl.on('line') up to its first suspension: JSON.parse and
\* request.method.startsWith throw into the catch, which writes the parse error.
lineHandler(line) ==
    IF ~line.json \/ ~Has(line.value, "method")
    THEN [written |-> <<parseErrorResponse>>, task |-> <<>>,
          chatSessions |-> chatSessions, heap |-> heap]
    ELSE LET outcome == handleRequest(line.value)
         IN  [written |-> IF outcome.response = <<>> THEN <<>>
                          ELSE writeResponse(outcome.response[1]),
              task |-> outcome.task,
              chatSessions |-> outcome.chatSessions, heap |-> outcome.heap]

\* the ChatSession objects still referenced by the map or by a suspended handler
Collect(objects, sessions, tasks) ==
    Restrict(objects, DOMAIN objects \cap
        ({sessions[k] : k \in DOMAIN sessions} \cup {task.chat : task \in BagToSet(tasks)}))

\* mutant: the text is fenced whether or not it parses
validatedAlwaysFenced(task, text) ==
    IF task.validate
    THEN FENCE \o <<"json\n">> \o text \o <<"\n">> \o FENCE
    ELSE text

\* the text generateStructuredData returns after its JSON.parse attempt
validated(task, text) ==
    IF task.validate /\ ~jsonParses(text)
    THEN FENCE \o <<"json\n">> \o text \o <<"\n">> \o FENCE
    ELSE text

\* ---------------------------------------------------------------- start-up
\* process.env as the start-up code reads it
Environments ==
    { <<>>, [GEMINI_API_KEY |-> <<>>], [GEMINI_API_KEY |-> <<"key">>] }

\* the module's top level: process.exit(1) unless the key is set and not
\* empty, else the server is constructed and its line listener registered
startUp(env) ==
    IF ~Truthy(env, "GEMINI_API_KEY") THEN [ev |-> "exit", code |-> 1]
    ELSE [ev |-> "start"]

\* mutant: the process is never taken to have exited
exitedNever == FALSE

\* the process has exited: no listener runs any more
exited == last.ev = "exit"

\* ---------------------------------------------------------------- actions
Init ==
    /\ chatSessions = <<>>
    /\ heap = <<>>
    /\ inflight = EmptyBag
    /\ emitted = <<>>
    /\ \E env \in Environments : last = startUp(env)
    /\ nIn = 0
    /\ nOut = 0
    /\ observed = [initialized |-> FALSE, cur |-> <<>>, memo |-> <<>>]

Suspend(tasks, task) == tasks (+) SetToBag({task})
Settle(tasks, task) == tasks (-) SetToBag({task})

\* mutant: a line is read only when no handler is suspended
ReadAndDispatchOneAtATime(line) ==
    /\ ~exited
    /\ inflight = EmptyBag
    /\ nIn < MaxLines
    /\ \E run \in {lineHandler(line)} :
       \E tasks \in {IF run.task = <<>> THEN inflight ELSE Suspend(inflight, run.task[1])} :
        /\ BagCardinality(tasks) <= MaxInflight
        /\ chatSessions' = run.chatSessions
        /\ heap' = Collect(run.heap, run.chatSessions, tasks)
        /\ inflight' = tasks
        /\ emitted' = run.written
        /\ last' = [ev |-> "line", line |-> line, task |-> run.task]
        /\ nIn' = nIn + 1
        /\ nOut' = nOut + Len(run.written)

\* a line arrives on standard input
ReadAndDispatch(line) ==
    /\ ~exited
    /\ nIn < MaxLines
    /\ \E run \in {lineHandler(line)} :
       \E tasks \in {IF run.task = <<>> THEN inflight ELSE Suspend(inflight, run.task[1])} :
        /\ BagCardinality(tasks) <= MaxInflight
        /\ chatSessions' = run.chatSessions
        /\ heap' = Collect(run.heap, run.chatSessions, tasks)
        /\ inflight' = tasks
        /\ emitted' = run.written
        /\ last' = [ev |-> "line", line |-> line, task |-> run.task]
        /\ nIn' = nIn + 1
        /\ nOut' = nOut + Len(run.written)

OnLine(line) ==
    /\ ReadAndDispatch(line)
    /\ UNCHANGED observed

\* fs.readFile (all of them, under Promise.all) resolves
readFileResolved(task) ==
    /\ BagIn(task, inflight)
    /\ task.pc = "readFile"
    /\ inflight' = Suspend(Settle(inflight, task), [task EXCEPT !.pc = "generateContent"])
    /\ emitted' = <<>>
    /\ last' = [ev |-> "readFile", task |-> task]
    /\ UNCHANGED <<chatSessions, heap, nIn, nOut>>

readFileResolves(task) ==
    /\ readFileResolved(task)
    /\ UNCHANGED observed

\* model.generateContent resolves and response.text() returns text
generateContentResolved(task, text) ==
    /\ BagIn(task, inflight)
    /\ task.pc = "generateContent"
    /\ inflight' = Settle(inflight, task)
    /\ emitted' = writeResponse(textResult(task.id, validated(task, text)))
    /\ last' = [ev |-> "resolve", task |-> task]
    /\ nOut' = nOut + Len(emitted')
    /\ UNCHANGED <<chatSessions, heap, nIn>>

generateContentResolves(task, text) ==
    /\ generateContentResolved(task, text)
    /\ UNCHANGED observed

\* chat.sendMessage resolves: the session has recorded the two turns
sendMessageResolved(task, text) ==
    /\ BagIn(task, inflight)
    /\ task.pc = "sendMessage"
    /\ task.message # <<>>
    /\ inflight' = Settle(inflight, task)
    /\ heap' = Collect(
            [heap EXCEPT ![task.chat] =
                @ \o << [role |-> "user", text |-> task.message[1]],
                        [role |-> "model", text |-> text] >>],
            chatSessions, inflight')
    /\ emitted' = writeResponse(textResult(task.id, text))
    /\ last' = [ev |-> "resolve", task |-> task]
    /\ nOut' = nOut + Len(emitted')
    /\ UNCHANGED <<chatSessions, nIn>>

sendMessageResolves(task, text) ==
    /\ sendMessageResolved(task, text)
    /\ UNCHANGED observed

\* mutant: the failure is swallowed and the handler goes on waiting
awaitRejectedKeepsWaiting(task, error) ==
    /\ BagIn(task, inflight)
    /\ emitted' = <<>>
    /\ last' = [ev |-> "reject", task |-> task, error |-> error]
    /\ UNCHANGED <<chatSessions, heap, inflight, nIn, nOut>>

\* mutant: a chat whose backend call failed takes its session out of the store
awaitRejectedDropsSession(task, error) ==
    /\ BagIn(task, inflight)
    /\ inflight' = Settle(inflight, task)
    /\ chatSessions' = IF task.fn = "chat"
                       THEN Restrict(chatSessions,
                                {k \in DOMAIN chatSessions : chatSessions[k] # task.chat})
                       ELSE chatSessions
    /\ heap' = Collect(heap, chatSessions', inflight')
    /\ emitted' = writeResponse(handleToolsCallCatch(task.id, error))
    /\ last' = [ev |-> "reject", task |-> task, error |-> error]
    /\ nOut' = nOut + Len(emitted')
    /\ UNCHANGED nIn

\* the awaited call rejects; the catch of handleToolsCall answers
awaitRejected(task, error) ==
    /\ BagIn(task, inflight)
    /\ inflight' = Settle(inflight, task)
    /\ heap' = Collect(heap, chatSessions, inflight')
    /\ emitted' = writeResponse(handleToolsCallCatch(task.id, error))
    /\ last' = [ev |-> "reject", task |-> task, error |-> error]
    /\ nOut' = nOut + Len(emitted')
    /\ UNCHANGED <<chatSessions, nIn>>


\* mutant: a failed backend call is made once more before the catch answers
awaitRejectsRetries(task, error) ==
    /\ BagIn(task, inflight)
    /\ IF task.pc = "generateContent" /\ ~task.validate
       THEN /\ inflight' = Suspend(Settle(inflight, task), [task EXCEPT !.validate = TRUE])
            /\ emitted' = <<>>
       ELSE /\ inflight' = Settle(inflight, task)
            /\ emitted' = writeResponse(handleToolsCallCatch(task.id, error))
    /\ heap' = Collect(heap, chatSessions, inflight')
    /\ last' = [ev |-> "reject", task |-> task, error |-> error]
    /\ nOut' = nOut + Len(emitted')
    /\ UNCHANGED <<chatSessions, nIn, observed>>

awaitRejects(task, error) ==
    /\ awaitRejected(task, error)
    /\ UNCHANGED observed

Next ==
    \/ \E line \in Lines : OnLine(line)
    \/ \E task \in BagToSet(inflight) : readFileResolves(task)
    \/ \E task \in BagToSet(inflight), text \in Texts : generateContentResolves(task, text)
    \/ \E task \in BagToSet(inflight), text \in Texts : sendMessageResolves(task, text)
    \/ \E task \in BagToSet(inflight), error \in Errors : awaitRejects(task, error)

Spec == Init /\ [][Next]_vars

\* ------------------------------------------- the same server, observed
\* SpecObserved runs the same handlers over fewer lines and records each
\* dispatch: the line, the session store before and after it, the handlers
\* suspended before it, whether an
\* initialize request had been read before it, and what the line handler wrote
\* and left suspended.  One earlier dispatch is remembered for comparison.
ObservedLines ==
    { Json(Request(1, <<"initialize">>)),
      Json(Request(1, <<"tools/list">>)),
      Json(Request(1, <<"ping">>)),
      Json(Call(1, "generate_text", [prompt |-> Hi])),
      Json(Call(1, "generate_text", <<>>)),
      Json(Call(1, "analyze_image", [imagePath |-> <<"a.png">>])),
      Json(Call(1, "chat", [message |-> Hi])),
      Json(Call(1, "clear_chat_history", <<>>)),
      Json(Call(1, "summarize_conversation", <<>>)),
      Json(Call(2, "clear_chat_history", [sessionId |-> S1])),
      Json(Call(1, "nope", <<>>)) }

ToolsMethods == { <<"tools/list">>, <<"tools/call">> }

Dispatch(line) ==
    [line |-> line, initialized |-> observed.initialized,
     sessions |-> chatSessions, objects |-> heap, suspended |-> inflight,
     sessionsAfter |-> chatSessions', objectsAfter |-> heap',
     written |-> emitted', task |-> last'.task]

OnLineObserved(line) ==
    /\ ReadAndDispatch(line)
    /\ \E remember \in BOOLEAN :
        observed' =
            [initialized |-> observed.initialized \/ line.value.method = <<"initialize">>,
             cur |-> <<Dispatch(line)>>,
             memo |-> IF /\ remember
                         /\ observed.memo = <<>>
                         /\ line.value.method \in ToolsMethods
                      THEN <<Dispatch(line)>> ELSE observed.memo]

NextObserved ==
    \/ \E line \in ObservedLines : OnLineObserved(line)
    \/ \E task \in BagToSet(inflight) : readFileResolves(task)
    \/ \E task \in BagToSet(inflight), text \in Texts : generateContentResolves(task, text)
    \/ \E task \in BagToSet(inflight), text \in Texts : sendMessageResolves(task, text)
    \/ \E task \in BagToSet(inflight), error \in Errors : awaitRejects(task, error)

SpecObserved == Init /\ [][NextObserved]_vars

\* ------------------------------------- the same server, its ids counted
\* SpecIds runs the same handlers over lines with two ids and counts, as
\* bags, the ids of the requests read (<<>> for a request without id;
\* notifications and undecodable lines are not requests) and the ids of the
\* responses written other than the parse error.
IdLines ==
    { NotJson,
      Json([jsonrpc |-> "2.0", id |-> 1, params |-> [name |-> <<"chat">>]]),
      Json(Request(1, <<"notifications/", "initialized">>)),
      Json(Request(1, <<"tools/list">>)),
      Json(Request(2, <<"ping">>)),
      Json(RequestNoId(<<"ping">>)),
      Json(Call(1, "generate_text", [prompt |-> Hi])),
      Json(Call(2, "generate_text", [prompt |-> Hi])),
      Json(Call(2, "generate_text", <<>>)),
      Json(Call(1, "analyze_image", [imagePath |-> <<"a.png">>])),
      Json(Call(2, "chat", [message |-> Hi])),
      Json(Call(1, "clear_chat_history", <<>>)),
      Json([jsonrpc |-> "2.0", method |-> <<"tools/call">>, params |-> [name |-> <<"nope">>]]) }

IsRequest(line) ==
    line.json /\ Has(line.value, "method") /\ ~isNotification(line.value)

\* the ids of the responses in written, the parse error left out
ResponseIds(written) ==
    BagOfAll(LAMBDA response : requestId(response),
             SetToBag({written[i] : i \in {j \in DOMAIN written :
                                               written[j] # parseErrorResponse}}))

InitIds ==
    /\ chatSessions = <<>>
    /\ heap = <<>>
    /\ inflight = EmptyBag
    /\ emitted = <<>>
    /\ \E env \in Environments : last = startUp(env)
    /\ nIn = 0
    /\ nOut = 0
    /\ observed = [received |-> EmptyBag, answered |-> EmptyBag]

Answered == observed' = [observed EXCEPT !.answered = @ (+) ResponseIds(emitted')]

OnLineIds(line) ==
    /\ ReadAndDispatch(line)
    /\ observed' =
        [received |-> IF IsRequest(line)
                      THEN observed.received (+) SetToBag({requestId(line.value)})
                      ELSE observed.received,
         answered |-> observed.answered (+) ResponseIds(emitted')]

\* an await of a suspended handler settles
SettleIds ==
    \/ \E task \in BagToSet(inflight) : readFileResolved(task) /\ Answered
    \/ \E task \in BagToSet(inflight), text \in Texts :
            generateContentResolved(task, text) /\ Answered
    \/ \E task \in BagToSet(inflight), text \in Texts :
            sendMessageResolved(task, text) /\ Answered
    \/ \E task \in BagToSet(inflight), error \in Errors :
            awaitRejected(task, error) /\ Answered

NextIds ==
    \/ \E line \in IdLines : OnLineIds(line)
    \/ SettleIds

SpecIds == InitIds /\ [][NextIds]_vars

\* every file read and every backend call eventually returns or fails
SpecIdsFair == SpecIds /\ WF_vars(SettleIds)

\* ------------------------------------------------------------ properties
\* the last step read a line / a line that decoded to a request with a method
ReadLine == last.ev = "line"
Decoded == ReadLine /\ last.line.json /\ Has(last.line.value, "method")
MethodIs(method) == Decoded /\ last.line.value.method = method
MethodIn(methods) == Decoded /\ last.line.value.method \in methods
LastId == requestId(last.line.value)

\* this step reads a line (only OnLine counts a line in)
ReadsLine == nIn' = nIn + 1

NotificationLine == Decoded /\ startsWith(last.line.value.method, <<"notifications/">>)

ErrorEnvelope(id, code) ==
    /\ Len(emitted) = 1
    /\ ~Has(emitted[1], "result")
    /\ Has(emitted[1], "error")
    /\ emitted[1].error.code = code
    /\ IF id = <<>> THEN ~Has(emitted[1], "id")
       ELSE Has(emitted[1], "id") /\ emitted[1].id = id[1]

\* C1: a line whose method begins with "notifications/" gets no output line,
\* whatever its id and params: nothing is written when it is read and no
\* handler is left suspended that could write later.
C1_NotificationsSilent ==
    NotificationLine => emitted = <<>> /\ last.task = <<>>

C1_Witness ==
    /\ NotificationLine
    /\ Has(last.line.value, "id")
    /\ Has(last.line.value, "params")
    /\ emitted = <<>>

\* C2 (as claimed): a line whose method is the bare keyword "exit" gets no
\* output line.
C2_ExitSilent ==
    MethodIs(<<"exit">>) => emitted = <<>>

RegisteredNames == { ToolCatalog[i].name : i \in DOMAIN ToolCatalog }

UnknownToolLine ==
    /\ MethodIs(<<"tools/call">>)
    /\ ~(/\ Has(last.line.value, "params")
         /\ Has(last.line.value.params, "name")
         /\ last.line.value.params.name \in RegisteredNames)

NameSupplied == Has(last.line.value, "params") /\ Has(last.line.value.params, "name")

\* C3 (as claimed): a tools/call for an unregistered name is answered with an
\* error envelope of code MethodNotFound (-32601) carrying the request's id.
C3_UnknownToolMethodNotFound ==
    UnknownToolLine => ErrorEnvelope(LastId, METHOD_NOT_FOUND)

\* C3 (amended): a tools/call for an unregistered name is answered with an
\* error envelope of code InvalidParams (-32602) carrying the request's id,
\* whose message contains the supplied name; no handler is started and the
\* session store is left alone.
C3_UnknownToolInvalidParams ==
    /\ [](UnknownToolLine =>
            /\ ErrorEnvelope(LastId, INVALID_PARAMS)
            /\ NameSupplied => Includes(emitted[1].error.message,
                                        last.line.value.params.name)
            /\ last.task = <<>>)
    /\ [][(ReadsLine /\ UnknownToolLine') => UNCHANGED <<chatSessions, heap, inflight>>]_vars

C3_Witness ==
    /\ UnknownToolLine
    /\ NameSupplied
    /\ Has(last.line.value, "id")
    /\ chatSessions # <<>>
    /\ ErrorEnvelope(LastId, INVALID_PARAMS)

Undecodable == ReadLine /\ ~(last.line.json /\ Has(last.line.value, "method"))

\* C4: a line that is not JSON, or is JSON without a method, gets exactly one
\* ParseError (-32700) line with the sentinel id 0, and leaves the session
\* store and the suspended handlers as they were, so that what follows is
\* handled as if the line had never arrived.
C4_ParseError ==
    /\ [](Undecodable =>
            /\ ErrorEnvelope(<<PARSE_ERROR_ID>>, PARSE_ERROR)
            /\ last.task = <<>>)
    /\ [][(ReadsLine /\ Undecodable') => UNCHANGED <<chatSessions, heap, inflight>>]_vars

C4_Witness ==
    /\ Undecodable
    /\ last.line.json
    /\ inflight # EmptyBag
    /\ ErrorEnvelope(<<PARSE_ERROR_ID>>, PARSE_ERROR)

\* C5: each line read causes at most one line written: no step writes two
\* lines, and the lines written plus the handlers still suspended never
\* outnumber the lines read.
C5_AtMostOneOutputPerLine ==
    /\ Len(emitted) <= 1
    /\ nOut + BagCardinality(inflight) <= nIn

C5_Witness ==
    /\ last.ev = "reject"
    /\ Len(emitted) = 1
    /\ nOut = nIn
    /\ nIn >= 2

\* C6: every envelope written holds exactly one of result and error.
C6_ResultXorError ==
    \A i \in 1..Len(emitted) : Has(emitted[i], "result") # Has(emitted[i], "error")

C6_Witness ==
    /\ last.ev = "resolve"
    /\ Len(emitted) = 1
    /\ Has(emitted[1], "result")
    /\ ~Has(emitted[1], "error")

Unsupported == { <<"resources/list">>, <<"prompts/list">> }

Routed == { <<"initialize">>, <<"tools/list">>, <<"tools/call">> } \cup Unsupported

UnrecognizedLine ==
    /\ Decoded
    /\ last.line.value.method \notin Routed
    /\ ~startsWith(last.line.value.method, <<"notifications/">>)
    /\ last.line.value.method # <<"exit">>

\* C8: a request whose method is none of initialize, tools/list, tools/call,
\* resources/list, prompts/list and that is not a notification is answered with
\* an error envelope of code MethodNotFound (-32601) carrying the request's id,
\* and leaves the session store unchanged.
C8_UnrecognizedMethod ==
    /\ [](UnrecognizedLine => ErrorEnvelope(LastId, METHOD_NOT_FOUND) /\ last.task = <<>>)
    /\ [][(ReadsLine /\ UnrecognizedLine') => UNCHANGED <<chatSessions, heap, inflight>>]_vars

C8_Witness ==
    /\ UnrecognizedLine
    /\ Has(last.line.value, "id")
    /\ chatSessions # <<>>
    /\ ErrorEnvelope(LastId, METHOD_NOT_FOUND)

\* C9: initialize succeeds whatever its params and whatever came before: the
\* result holds the fixed protocol version, server name and version, and a
\* capabilities object whose only key is tools; no server state changes.
C9_Initialize ==
    /\ [](MethodIs(<<"initialize">>) =>
            /\ Len(emitted) = 1
            /\ ~Has(emitted[1], "error")
            /\ Has(emitted[1], "result")
            /\ (IF LastId = <<>> THEN ~Has(emitted[1], "id")
                ELSE Has(emitted[1], "id") /\ emitted[1].id = LastId[1])
            /\ emitted[1].result.protocolVersion = <<"2024-11-05">>
            /\ emitted[1].result.serverInfo.name = <<"gemini-2.5-pro-mcp-server">>
            /\ emitted[1].result.serverInfo.version = <<"2.5.0">>
            /\ DOMAIN emitted[1].result.capabilities = {"tools"}
            /\ last.task = <<>>)
    /\ [][(ReadsLine /\ MethodIs(<<"initialize">>)') =>
            UNCHANGED <<chatSessions, heap, inflight>>]_vars

C9_Witness ==
    /\ MethodIs(<<"initialize">>)
    /\ Has(last.line.value, "params")
    /\ chatSessions # <<>>
    /\ nIn >= 2
    /\ Len(emitted) = 1
    /\ Has(emitted[1], "result")

SameDispatch(a, b) ==
    /\ a.written = b.written
    /\ a.task = b.task
    /\ a.sessionsAfter = b.sessionsAfter
    /\ a.objectsAfter = b.objectsAfter

\* C10: initialization is not enforced: two dispatches of the same tools/list
\* or tools/call line from the same server state (session store and suspended
\* handlers) write the same line, suspend the same handler and leave the same
\* store whether or not an initialize request was read before either; and tools/list read before any initialize is
\* answered with the catalog.
C10_InitializeNotEnforced ==
    /\ (observed.memo # <<>> /\ observed.cur # <<>>) =>
        LET a == observed.memo[1]
            b == observed.cur[1]
        IN  (a.line = b.line /\ a.sessions = b.sessions /\ a.objects = b.objects
             /\ a.suspended = b.suspended /\ a.line.value.method \in ToolsMethods)
            => SameDispatch(a, b)
    /\ (observed.cur # <<>> /\ ~observed.cur[1].initialized
        /\ observed.cur[1].line.value.method = <<"tools/list">>) =>
        /\ Len(observed.cur[1].written) = 1
        /\ Has(observed.cur[1].written[1], "result")
        /\ observed.cur[1].written[1].result.tools = ToolCatalog

C10_Witness ==
    /\ observed.memo # <<>>
    /\ observed.cur # <<>>
    /\ observed.memo[1].line = observed.cur[1].line
    /\ observed.memo[1].sessions = observed.cur[1].sessions
    /\ observed.memo[1].objects = observed.cur[1].objects
    /\ observed.memo[1].suspended = observed.cur[1].suspended
    /\ observed.memo[1].line.value.method = <<"tools/call">>
    /\ ~observed.memo[1].initialized
    /\ observed.cur[1].initialized
    /\ observed.cur[1].task # <<>>
    /\ SameDispatch(observed.memo[1], observed.cur[1])

UniqueNames(tools) ==
    \A i, j \in DOMAIN tools : tools[i].name = tools[j].name => i = j

ListsTools == Len(emitted) = 1 /\ Has(emitted[1], "result") /\ Has(emitted[1].result, "tools")

ToolLine(name) ==
    /\ MethodIs(<<"tools/call">>)
    /\ NameSupplied
    /\ last.line.value.params.name = <<name>>
LastArgs ==
    IF Has(last.line.value.params, "arguments") THEN last.line.value.params.arguments
    ELSE <<>>
LastKey == IF Has(LastArgs, "sessionId") THEN LastArgs.sessionId ELSE <<"default">>

\* the last step wrote one success envelope with the given id
ResultEnvelope(id) ==
    /\ Len(emitted) = 1
    /\ Has(emitted[1], "result")
    /\ ~Has(emitted[1], "error")
    /\ IF id = <<>> THEN ~Has(emitted[1], "id")
       ELSE Has(emitted[1], "id") /\ emitted[1].id = id[1]

Settled(ev, fn) == last.ev = ev /\ last.task.fn = fn

\* C12: a key has a session exactly from a chat line for that key until the
\* next clear line for it.  summarize_conversation for a key that has a
\* session makes one backend call and, when that call succeeds, is answered
\* with a result; for a key without a session it is answered at once with
\* InvalidParams (-32602) and no backend call is made.  It never changes which
\* keys have a session.
C12_SummarizeNeedsSession ==
    /\ [](ToolLine("summarize_conversation") =>
            IF LastKey \in DOMAIN chatSessions
            THEN /\ emitted = <<>>
                 /\ last.task # <<>>
                 /\ last.task[1].fn = "summarizeConversation"
                 /\ last.task[1].pc = "sendMessage"
            ELSE /\ ErrorEnvelope(LastId, INVALID_PARAMS)
                 /\ last.task = <<>>)
    /\ [](Settled("resolve", "summarizeConversation") => ResultEnvelope(last.task.id))
    /\ [][(ReadsLine /\ ToolLine("chat")') => (LastKey' \in DOMAIN chatSessions')]_vars
    /\ [][(ReadsLine /\ ToolLine("summarize_conversation")') => UNCHANGED chatSessions]_vars
    /\ [][\A k \in DOMAIN chatSessions \ DOMAIN chatSessions' :
            ReadsLine /\ ToolLine("clear_chat_history")' /\ LastKey' = k]_vars
    /\ [][\A k \in DOMAIN chatSessions' \ DOMAIN chatSessions :
            ReadsLine /\ ToolLine("chat")' /\ LastKey' = k]_vars

C12_Witness ==
    /\ Settled("resolve", "summarizeConversation")
    /\ ResultEnvelope(last.task.id)
    /\ last.task.chat \in DOMAIN heap
    /\ Len(heap[last.task.chat]) >= 4

\* the two turns a system prompt seeds a new session with
SeedTurns(prompt) ==
    << [role |-> "user", text |-> <<"System: ">> \o prompt],
       [role |-> "model", text |-> <<"Understood. I will follow these instructions.">>] >>

\* C13: after clear_chat_history for a key no session exists for that key; a
\* chat line for a key without a session creates a session object that no
\* suspended handler holds, whose history has none of the earlier turns: it is
\* the two seed turns of the systemPrompt of that chat line, or empty when the
\* line has none.
C13_ClearThenFresh ==
    /\ [](ToolLine("clear_chat_history") =>
            /\ LastKey \notin DOMAIN chatSessions
            /\ ResultEnvelope(LastId)
            /\ last.task = <<>>)
    /\ [][(ReadsLine /\ ToolLine("chat")' /\ LastKey' \notin DOMAIN chatSessions) =>
            /\ LastKey' \in DOMAIN chatSessions'
            /\ chatSessions'[LastKey'] \notin DOMAIN heap
            /\ heap'[chatSessions'[LastKey']] =
                    IF Has(LastArgs', "systemPrompt") /\ LastArgs'.systemPrompt # <<>>
                    THEN SeedTurns(LastArgs'.systemPrompt) ELSE <<>>]_vars

\* the chat for s1 read first is still suspended on the session that was
\* cleared; the chat for s1 read last got a new session seeded with its prompt
C13_Witness ==
    /\ ToolLine("chat")
    /\ LastKey = S1
    /\ nIn = 3
    /\ Has(LastArgs, "systemPrompt")
    /\ heap[chatSessions[S1]] = SeedTurns(LastArgs.systemPrompt)
    /\ \E task \in BagToSet(inflight) :
        /\ task.fn = "chat"
        /\ task.id = <<2>>
        /\ task.message # <<>>
        /\ task.chat # chatSessions[S1]

SeedTurn(turn) == turn.role = "user" /\ startsWith(turn.text, <<"System: ">>)

\* C14: a chat line with a systemPrompt for a key without a session seeds the
\* new history with exactly two turns, a caller turn holding the prompt and a
\* generator acknowledgment; a chat line for a key that has a session leaves
\* the session object and its history as they are, whatever systemPrompt it
\* carries, and suspends on that object with the line's message only; no
\* history ever holds a seed turn anywhere but at its head.
C14_SystemPromptFirstWriteWins ==
    /\ [][(/\ ReadsLine /\ ToolLine("chat")'
           /\ LastKey' \notin DOMAIN chatSessions
           /\ Has(LastArgs', "systemPrompt") /\ LastArgs'.systemPrompt # <<>>) =>
            LET history == heap'[chatSessions'[LastKey']]
            IN  /\ Len(history) = 2
                /\ SeedTurn(history[1])
                /\ Includes(history[1].text, LastArgs'.systemPrompt)
                /\ history[2].role = "model"]_vars
    /\ [][(ReadsLine /\ ToolLine("chat")' /\ LastKey' \in DOMAIN chatSessions) =>
            /\ chatSessions' = chatSessions
            /\ heap'[chatSessions[LastKey']] = heap[chatSessions[LastKey']]
            /\ last'.task # <<>>
            /\ last'.task[1].chat = chatSessions[LastKey']
            /\ last'.task[1].message = (IF Has(LastArgs', "message")
                                         THEN <<LastArgs'.message>> ELSE <<>>)]_vars
    /\ [](\A ref \in DOMAIN heap : \A i \in 2..Len(heap[ref]) : ~SeedTurn(heap[ref][i]))

\* a session seeded at creation has had one exchange, and a second chat line
\* carrying a systemPrompt has just been read for it
C14_Witness ==
    /\ ToolLine("chat")
    /\ Has(LastArgs, "systemPrompt")
    /\ LastKey \in DOMAIN chatSessions
    /\ Len(heap[chatSessions[LastKey]]) = 4
    /\ SubSeq(heap[chatSessions[LastKey]], 1, 2) = SeedTurns(LastArgs.systemPrompt)
    /\ ~SeedTurn(heap[chatSessions[LastKey]][3])

IsPrefix(s, t) == Len(s) <= Len(t) /\ SubSeq(t, 1, Len(s)) = s

\* C16: every key of the store names one live session object and no two keys
\* name the same object; a chat line creates a session object only when its
\* key has none, registers it at once, and suspends on the object registered
\* for its key, so that a second chat line read while the first is suspended
\* uses the same object; and the history of an object, while the object
\* lives, only grows at its end.
C16_OneSessionPerKey ==
    /\ [](/\ \A k \in DOMAIN chatSessions : chatSessions[k] \in DOMAIN heap
          /\ \A j, k \in DOMAIN chatSessions : chatSessions[j] = chatSessions[k] => j = k)
    /\ [][(ReadsLine /\ ToolLine("chat")') =>
            /\ last'.task # <<>>
            /\ last'.task[1].chat = chatSessions'[LastKey']
            /\ DOMAIN chatSessions' = DOMAIN chatSessions \cup {LastKey'}
            /\ \A k \in DOMAIN chatSessions : chatSessions'[k] = chatSessions[k]
            /\ DOMAIN heap' \ DOMAIN heap =
                    (IF LastKey' \in DOMAIN chatSessions THEN {}
                     ELSE {chatSessions'[LastKey']})]_vars
    /\ [][\A ref \in DOMAIN heap \cap DOMAIN heap' : IsPrefix(heap[ref], heap'[ref])]_vars

\* two chat lines for one unseen key have been read one after the other and
\* both handlers are suspended on the only session object there is
C16_Witness ==
    /\ ToolLine("chat")
    /\ nIn = 2
    /\ BagCardinality(inflight) = 2
    /\ Cardinality(BagToSet(inflight)) = 2
    /\ DOMAIN chatSessions = {LastKey}
    /\ DOMAIN heap = {chatSessions[LastKey]}
    /\ \A task \in BagToSet(inflight) :
            task.fn = "chat" /\ task.chat = chatSessions[LastKey]

\* the caller turn and the generator turn a settled sendMessage stands for
Exchange(task, history, longer) ==
    /\ Len(longer) = Len(history) + 2
    /\ IsPrefix(history, longer)
    /\ longer[Len(history) + 1] = [role |-> "user", text |-> task.message[1]]
    /\ longer[Len(history) + 2].role = "model"

\* C17 (as claimed): the history of a session object changes only when a chat
\* succeeds, and then by exactly one caller turn and one generator turn at its
\* end; every other step, the success of summarize_conversation included,
\* leaves every history as it was.
C17_HistoryOnlyByChat ==
    [][/\ (Settled("resolve", "chat")' /\ last'.task.chat \in DOMAIN heap') =>
            Exchange(last'.task, heap[last'.task.chat], heap'[last'.task.chat])
       /\ \A ref \in DOMAIN heap \cap DOMAIN heap' :
            heap'[ref] # heap[ref] => Settled("resolve", "chat")' /\ last'.task.chat = ref]_vars

ImageCount == IF Has(LastArgs, "images") THEN Len(LastArgs.images) ELSE 0

\* C18 (as claimed): a compare_images call with fewer than 2 images, with no
\* images at all, or with more than 5 images is answered with InvalidParams
\* (-32602) and no backend call is made for it.
C18_CompareImagesTwoToFive ==
    (ToolLine("compare_images") /\ (ImageCount < 2 \/ ImageCount > 5)) =>
        ErrorEnvelope(LastId, INVALID_PARAMS) /\ last.task = <<>>

\* the last line read calls a registered tool and leaves out a field that the
\* tool's inputSchema lists under required
OmitsRequired ==
    /\ MethodIs(<<"tools/call">>)
    /\ NameSupplied
    /\ \E i \in DOMAIN ToolCatalog :
        /\ ToolCatalog[i].name = last.line.value.params.name
        /\ \E j \in DOMAIN ToolCatalog[i].required :
                ~Has(LastArgs, ToolCatalog[i].required[j])

\* C19 (as claimed): a tools/call for a registered tool whose arguments leave
\* out a field the tool's schema requires is answered with InvalidParams
\* (-32602) and no backend call is made for it.
C19_RequiredFieldsValidated ==
    OmitsRequired => ErrorEnvelope(LastId, INVALID_PARAMS) /\ last.task = <<>>

Rejected == last.ev = "reject"

\* C20 (as claimed): when an awaited backend call or file read fails, the
\* handler's answer is an InternalError (-32603) envelope whose message is the
\* failure's own message, nothing added and nothing removed.
C20_MessageVerbatim ==
    Rejected =>
        /\ ErrorEnvelope(last.task.id, INTERNAL_ERROR)
        /\ emitted[1].error.message = last.error.message

\* C20 (amended): when an awaited backend call or file read fails, the answer
\* is an InternalError (-32603) envelope carrying the request's id whose
\* message is "Error: " followed by the failure's message when the failure is
\* an Error, and "Error: Unknown error" when it is any other thrown value.
C20_MessagePrefixed ==
    Rejected =>
        /\ ErrorEnvelope(last.task.id, INTERNAL_ERROR)
        /\ emitted[1].error.message =
                (IF last.error.isError THEN <<"Error: ">> \o last.error.message
                 ELSE <<"Error: ", "Unknown error">>)

\* a file read failed with an Error while another handler was suspended
C20_Witness ==
    /\ Rejected
    /\ last.error.isError
    /\ last.task.pc = "readFile"
    /\ inflight # EmptyBag
    /\ ErrorEnvelope(last.task.id, INTERNAL_ERROR)
    /\ emitted[1].error.message = <<"Error: ">> \o last.error.message

\* C21: when an awaited call of a tools/call fails, the handler is not
\* suspended again (the call is not repeated): it leaves the suspended
\* handlers, exactly one line is written, an InternalError (-32603) envelope
\* with the request's id, the session map and the other handlers are left as
\* they were, and the server can still read and answer a line.
C21_FailureOnceNoRetry ==
    /\ [](Rejected =>
            /\ ErrorEnvelope(last.task.id, INTERNAL_ERROR)
            /\ nIn < MaxLines => ENABLED OnLine(Json(Request(1, <<"tools/list">>))))
    /\ [][(last'.ev = "reject") =>
            /\ BagIn(last'.task, inflight)
            /\ inflight' = Settle(inflight, last'.task)
            /\ nOut' = nOut + 1
            /\ UNCHANGED <<chatSessions, nIn>>]_vars

\* the backend call of one of two suspended handlers has failed
C21_Witness ==
    /\ Rejected
    /\ last.task.pc = "generateContent"
    /\ inflight # EmptyBag
    /\ nIn < MaxLines
    /\ ErrorEnvelope(last.task.id, INTERNAL_ERROR)

JsonFormat == ~Has(LastArgs, "format") \/ LastArgs.format = <<"json">>

EmittedText == emitted[1].result.content[1].text

\* C22: a generate_structured_data call is suspended on one backend call, and
\* its handler will try to parse the answer exactly when format is json or is
\* left out.  When the call of such a handler succeeds the line written is a
\* result, never an error: the backend's text unchanged when it parses as
\* JSON, and otherwise that text between a fence line marked json and a
\* closing fence.
C22_StructuredDataLenient ==
    /\ ToolLine("generate_structured_data") =>
        /\ last.task # <<>>
        /\ last.task[1].pc = "generateContent"
        /\ last.task[1].validate = JsonFormat
    /\ (last.ev = "resolve" /\ last.task.validate) =>
        /\ ResultEnvelope(last.task.id)
        /\ \E text \in Texts :
            EmittedText = (IF jsonParses(text) THEN text
                           ELSE FENCE \o <<"json\n">> \o text \o <<"\n">> \o FENCE)

C22_Witness ==
    /\ last.ev = "resolve"
    /\ last.task.validate
    /\ ResultEnvelope(last.task.id)
    /\ \E text \in Texts :
        /\ ~jsonParses(text)
        /\ EmittedText = FENCE \o <<"json\n">> \o text \o <<"\n">> \o FENCE

\* C23: a process started without the credential (the variable absent or
\* empty) has exited with status 1 and stays as it started: no line has been
\* read, none written, no handler is suspended, and it takes no step.
C23_NoCredentialNoTransport ==
    /\ [](last.ev = "exit" =>
            /\ last.code = 1
            /\ nIn = 0 /\ nOut = 0
            /\ emitted = <<>>
            /\ inflight = EmptyBag
            /\ chatSessions = <<>>)
    /\ [][last.ev # "exit"]_vars

C23_Witness ==
    /\ last.ev = "exit"
    /\ last.code = 1
    /\ nIn = 0
    /\ nOut = 0

\* lines answered without any await, and a tool call on the session s1
AnsweredAtOnce ==
    { Json(Request(1, <<"initialize">>)), Json(Request(1, <<"tools/list">>)),
      Json(Request(1, <<"ping">>)) }
ChatOnS1 == Json(Call(2, "chat", [message |-> Hi, sessionId |-> S1]))

\* C24: suspended handlers never hold up the others.  Whatever is suspended,
\* the next line can be read and dispatched (initialize, tools/list, an
\* unknown method, and a chat on another session while the handler bound
\* allows one more), and each suspended handler's await can settle whether or
\* not the handlers dispatched before it have settled.
C24_HungCallBlocksOnlyItself ==
    /\ (last.ev # "exit" /\ nIn < MaxLines) =>
        /\ \A line \in AnsweredAtOnce : ENABLED OnLine(line)
        /\ BagCardinality(inflight) < MaxInflight => ENABLED OnLine(ChatOnS1)
    /\ \A task \in BagToSet(inflight) :
        /\ \A error \in Errors : ENABLED awaitRejects(task, error)
        /\ task.pc = "readFile" => ENABLED readFileResolves(task)
        /\ task.pc = "generateContent" =>
                \A text \in Texts : ENABLED generateContentResolves(task, text)
        /\ (task.pc = "sendMessage" /\ task.message # <<>>) =>
                \A text \in Texts : ENABLED sendMessageResolves(task, text)

\* two chats on different sessions are both waiting for the backend, and the
\* line read after them, an unknown method, has already been answered
C24_Witness ==
    /\ MethodIs(<<"ping">>)
    /\ nIn = 3
    /\ ErrorEnvelope(LastId, METHOD_NOT_FOUND)
    /\ DOMAIN chatSessions = {S1, <<"default">>}
    /\ \E one, other \in BagToSet(inflight) :
        /\ one.fn = "chat" /\ one.chat = chatSessions[<<"default">>]
        /\ other.fn = "chat" /\ other.chat = chatSessions[S1]

\* the last step wrote the answer of a tools/call: at once, or when the
\* handler's await settled
ToolAnswer ==
    /\ Len(emitted) = 1
    /\ MethodIs(<<"tools/call">>) \/ last.ev \in {"resolve", "reject"}

\* result: {content: [{type: "text", text: <string>}]}
TextContent(envelope) ==
    /\ DOMAIN envelope.result = {"content"}
    /\ Len(envelope.result.content) = 1
    /\ DOMAIN envelope.result.content[1] = {"type", "text"}
    /\ envelope.result.content[1].type = "text"
    /\ envelope.result.content[1].text \in Seq(STRING)

SuccessesAreTextContent ==
    (ToolAnswer /\ Has(emitted[1], "result")) => TextContent(emitted[1])

DefaultKey == <<"default">>

\* the last line read leaves sessionId out, or gives it as "default"
OnDefaultSession ==
    ~Has(LastArgs, "sessionId") \/ LastArgs.sessionId = DefaultKey

\* C26: chat, clear_chat_history and summarize_conversation without a
\* sessionId act on the session under the key "default", the one they act on
\* when "default" is given: such a chat registers or finds the session under
\* "default" and suspends on it, such a clear leaves no session under
\* "default", and such a summarize suspends on the session under "default" if
\* there is one and is refused with InvalidParams if there is none.
C26_DefaultKey ==
    /\ (ToolLine("chat") /\ OnDefaultSession) =>
        /\ DefaultKey \in DOMAIN chatSessions
        /\ last.task # <<>>
        /\ last.task[1].chat = chatSessions[DefaultKey]
    /\ (ToolLine("clear_chat_history") /\ OnDefaultSession) =>
        DefaultKey \notin DOMAIN chatSessions
    /\ (ToolLine("summarize_conversation") /\ OnDefaultSession) =>
        IF DefaultKey \in DOMAIN chatSessions
        THEN last.task # <<>> /\ last.task[1].chat = chatSessions[DefaultKey]
        ELSE ErrorEnvelope(LastId, INVALID_PARAMS) /\ last.task = <<>>

\* a chat without sessionId is waiting for the backend, and a
\* summarize_conversation for "default" has been suspended on its session
C26_Witness ==
    /\ ToolLine("summarize_conversation")
    /\ Has(LastArgs, "sessionId")
    /\ nIn = 2
    /\ DOMAIN chatSessions = {DefaultKey}
    /\ last.task # <<>>
    /\ last.task[1].chat = chatSessions[DefaultKey]
    /\ \E task \in BagToSet(inflight) :
        /\ task.fn = "chat"
        /\ task.id = <<1>>
        /\ task.message = <<Hi>>
        /\ task.chat = chatSessions[DefaultKey]

SessionLine ==
    ToolLine("chat") \/ ToolLine("clear_chat_history") \/ ToolLine("summarize_conversation")

\* the session under key k is the same object with the same history after the step
Untouched(k) ==
    /\ k \in DOMAIN chatSessions
    /\ k \in DOMAIN chatSessions'
    /\ chatSessions'[k] = chatSessions[k]
    /\ heap'[chatSessions[k]] = heap[chatSessions[k]]

\* C27: reading a chat, clear_chat_history or summarize_conversation line for
\* one key neither creates nor removes nor changes the session of any other
\* key; and when the sendMessage of a suspended chat or summarize settles,
\* whatever else is suspended, no key is added or removed and only the
\* history of the one object the handler holds can change, an object that no
\* other key names.
C27_SessionsIsolated ==
    /\ [][(ReadsLine /\ SessionLine') =>
            \A k \in (DOMAIN chatSessions \cup DOMAIN chatSessions') \ {LastKey'} :
                Untouched(k)]_vars
    /\ [][(last'.ev \in {"resolve", "reject"} /\ last'.task.pc = "sendMessage") =>
            /\ chatSessions' = chatSessions
            /\ \A k \in DOMAIN chatSessions :
                    chatSessions[k] # last'.task.chat => Untouched(k)
            /\ Cardinality({k \in DOMAIN chatSessions :
                                chatSessions[k] = last'.task.chat}) <= 1]_vars

\* the chat on s1 was answered after the chat on the default session: both
\* sessions hold their own exchange
C27_Witness ==
    /\ Settled("resolve", "chat")
    /\ DOMAIN chatSessions = {S1, DefaultKey}
    /\ last.task.chat = chatSessions[S1]
    /\ Len(heap[chatSessions[S1]]) = 2
    /\ Len(heap[chatSessions[DefaultKey]]) = 2

SingleImageLine == ToolLine("analyze_image") \/ ToolLine("extract_text_from_image")

GivesPath ==
    \/ SingleImageLine /\ Has(LastArgs, "imagePath") /\ LastArgs.imagePath # <<>>
    \/ /\ ToolLine("compare_images")
       /\ ImageCount >= 2
       /\ \E i \in 1..ImageCount :
            Has(LastArgs.images[i], "path") /\ LastArgs.images[i].path # <<>>

GivesNoImage ==
    /\ SingleImageLine
    /\ ~(Has(LastArgs, "imagePath") /\ LastArgs.imagePath # <<>>)
    /\ ~(Has(LastArgs, "imageBase64") /\ LastArgs.imageBase64 # <<>>)

\* C28: an image call that gives a path is first suspended on the file read,
\* the backend not yet called; when that read fails the handler ends there,
\* answering InternalError (-32603) with the request's id, and never reaches
\* its backend call.  analyze_image and extract_text_from_image with neither
\* imagePath nor imageBase64 are answered at once with InvalidParams (-32602),
\* no read and no backend call made.
C28_ImageFailures ==
    /\ [](GivesPath => last.task # <<>> /\ last.task[1].pc = "readFile" /\ emitted = <<>>)
    /\ [](GivesNoImage => ErrorEnvelope(LastId, INVALID_PARAMS) /\ last.task = <<>>)
    /\ []((Rejected /\ last.task.pc = "readFile") =>
            ErrorEnvelope(last.task.id, INTERNAL_ERROR))
    /\ [][(last'.ev = "reject" /\ last'.task.pc = "readFile") =>
            /\ BagIn(last'.task, inflight)
            /\ inflight' = Settle(inflight, last'.task)]_vars

\* the file read of an image call has failed and its handler is gone
C28_Witness ==
    /\ Rejected
    /\ last.task.pc = "readFile"
    /\ last.task.fn = "analyzeImage"
    /\ inflight = EmptyBag
    /\ ErrorEnvelope(last.task.id, INTERNAL_ERROR)

\* the ids of the requests whose handlers are suspended
SuspendedIds == BagOfAll(LAMBDA task : task.id, inflight)

\* the id on the one line written (<<>>: none)
EmittedId == requestId(emitted[1])

\* C29: a line written for a request carries that request's id (none when
\* the request has none): at once for the line just read, and for a handler
\* whose await settled the id of its own request.  Counted as bags, the ids on
\* the responses written so far, the parse error left out, together with the
\* ids of the requests still suspended, are among the ids of the requests
\* read, so no response is written with the id of another request in flight.
C29_ResponsesCarryRequestIds ==
    /\ (observed.answered (+) SuspendedIds) \sqsubseteq observed.received
    /\ (ReadLine /\ IsRequest(last.line) /\ emitted # <<>>) =>
        Len(emitted) = 1 /\ EmittedId = LastId
    /\ (ReadLine /\ IsRequest(last.line) /\ last.task # <<>>) => last.task[1].id = LastId
    /\ (last.ev \in {"resolve", "reject"}) =>
        Len(emitted) = 1 /\ EmittedId = last.task.id

\* of two suspended requests with ids 1 and 2, the one with id 2 has been
\* answered with 2 while the one with id 1 is still waiting
C29_Witness ==
    /\ last.ev \in {"resolve", "reject"}
    /\ last.task.id = <<2>>
    /\ EmittedId = <<2>>
    /\ SuspendedIds = SetToBag({<<1>>})
    /\ observed.answered = SetToBag({<<2>>})
    /\ observed.received = SetToBag({<<1>>, <<2>>})

\* every line read that is not a notification has been answered: the
\* undecodable ones with the parse error, the requests with their response
AllAnswered ==
    /\ inflight = EmptyBag
    /\ observed.answered = observed.received

\* C30: if every file read and every backend call eventually returns or
\* fails, then whenever a request is waiting for its answer, eventually every
\* line read that is not a notification has been answered, each once: the
\* lines written never outnumber the lines read, and at that point the ids
\* answered are, as a bag, the ids of the requests read.
C30_EveryRequestAnswered ==
    /\ (inflight # EmptyBag) ~> AllAnswered
    /\ [](nOut + BagCardinality(inflight) <= nIn)
    /\ [](inflight = EmptyBag => observed.answered = observed.received)

\* two requests were suspended and both have been answered
C30_Witness ==
    /\ AllAnswered
    /\ last.ev \in {"resolve", "reject"}
    /\ BagCardinality(observed.received) >= 2
    /\ nOut = nIn
    /\ nIn = 2

\* the objects the session store names; a suspended chat whose object the
\* store no longer names
Registered == {chatSessions[k] : k \in DOMAIN chatSessions}
Detached(task) == task.fn = "chat" /\ task.chat \notin Registered

\* C31: a clear_chat_history line read while a chat holding the session of the
\* same key is suspended leaves that chat suspended on its object, with the
\* history it had, and the store names that object no more, neither then nor
\* later.  When the sendMessage of such a chat resolves, the chat is answered
\* with its own result, and no key is added, removed or changed: a key names
\* the same object with the same history as before the step, so the key of
\* the chat has no session or the session a later chat line created.
C31_ClearDetachesInflightChat ==
    /\ [][(ReadsLine /\ ToolLine("clear_chat_history")' /\ LastKey' \in DOMAIN chatSessions) =>
            \A task \in BagToSet(inflight) :
                (task.fn = "chat" /\ task.chat = chatSessions[LastKey']) =>
                    /\ BagIn(task, inflight')
                    /\ Detached(task)'
                    /\ heap'[task.chat] = heap[task.chat]]_vars
    /\ [][\A ref \in DOMAIN heap \ Registered : ref \notin Registered']_vars
    /\ [][(Settled("resolve", "chat")' /\ Detached(last'.task)) =>
            /\ \E text \in Texts : emitted' = <<textResult(last'.task.id, text)>>
            /\ chatSessions' = chatSessions
            /\ \A k \in DOMAIN chatSessions : Untouched(k)]_vars

\* the chat read first was answered after the default session was cleared and
\* a later chat created it anew: the new session has no turn
C31_Witness ==
    /\ Settled("resolve", "chat")
    /\ nIn = 3
    /\ ResultEnvelope(last.task.id)
    /\ last.task.chat \notin Registered
    /\ DefaultKey \in DOMAIN chatSessions
    /\ heap[chatSessions[DefaultKey]] = <<>>
    /\ \E task \in BagToSet(inflight) :
            task.fn = "chat" /\ task.chat = chatSessions[DefaultKey]

\* C32: a chat line for a key without a session puts the session in the store,
\* holding the seed turns of its systemPrompt or nothing, in the step that
\* reads the line, while the backend call is still pending.  When the
\* sendMessage of a chat fails, the chat is answered with InternalError
\* (-32603) and the store and the history of the session are left as they
\* were.  A summarize_conversation line for a key that has a session is not
\* answered with "no session" but calls the backend, and a chat line for a key
\* that has a session leaves its object and history alone whatever its
\* systemPrompt.
C32_SessionRegisteredBeforeBackend ==
    /\ [][(ReadsLine /\ ToolLine("chat")' /\ LastKey' \notin DOMAIN chatSessions) =>
            /\ emitted' = <<>>
            /\ last'.task # <<>>
            /\ last'.task[1].pc = "sendMessage"
            /\ BagIn(last'.task[1], inflight')
            /\ LastKey' \in DOMAIN chatSessions'
            /\ chatSessions'[LastKey'] = last'.task[1].chat
            /\ heap'[chatSessions'[LastKey']] =
                    IF Has(LastArgs', "systemPrompt") /\ LastArgs'.systemPrompt # <<>>
                    THEN SeedTurns(LastArgs'.systemPrompt) ELSE <<>>]_vars
    /\ [][Settled("reject", "chat")' =>
            /\ Len(emitted') = 1
            /\ ~Has(emitted'[1], "result")
            /\ emitted'[1].error.code = INTERNAL_ERROR
            /\ <<emitted'[1].id>> = last'.task.id
            /\ chatSessions' = chatSessions
            /\ \A k \in DOMAIN chatSessions : Untouched(k)]_vars
    /\ [][(ReadsLine /\ ToolLine("summarize_conversation")' /\ LastKey' \in DOMAIN chatSessions) =>
            /\ emitted' = <<>>
            /\ last'.task # <<>>
            /\ last'.task[1].chat = chatSessions[LastKey']]_vars
    /\ [][(ReadsLine /\ ToolLine("chat")' /\ LastKey' \in DOMAIN chatSessions) =>
            Untouched(LastKey')]_vars

\* the first chat on s1, without a systemPrompt, has failed; the session is
\* still there with no turn, and the chat with a systemPrompt read after the
\* failure is suspended on it without having seeded it
C32_Witness ==
    /\ ToolLine("chat")
    /\ LastKey = S1
    /\ Has(LastArgs, "systemPrompt")
    /\ LastArgs.systemPrompt # <<>>
    /\ nIn = 2
    /\ nOut = 1
    /\ BagCardinality(inflight) = 1
    /\ last.task # <<>>
    /\ last.task[1].chat = chatSessions[S1]
    /\ heap[chatSessions[S1]] = <<>>

\* a recorded dispatch of a clear_chat_history line, and the key it names
IsClear(d) ==
    /\ d.line.json
    /\ Has(d.line.value, "method")
    /\ d.line.value.method = <<"tools/call">>
    /\ d.line.value.params.name = <<"clear_chat_history">>
ClearKey(d) ==
    IF Has(d.line.value.params.arguments, "sessionId")
    THEN d.line.value.params.arguments.sessionId ELSE <<"default">>

\* C33: every clear_chat_history line is answered at once with a result whose
\* one text item names the session key, whether or not the key had a session,
\* and leaves no handler suspended; afterwards the key has no session and
\* every other key has the object it had.  Clearing the same key again, from
\* the store the first clear left, leaves that store as it is and is answered
\* with the same result.
C33_ClearIdempotent ==
    /\ \A d \in {observed.cur[i] : i \in DOMAIN observed.cur}
              \cup {observed.memo[i] : i \in DOMAIN observed.memo} :
        IsClear(d) =>
            /\ d.written = << [jsonrpc |-> "2.0", id |-> d.line.value.id,
                               result |-> [content |-> << [type |-> "text",
                                   text |-> <<"Chat history cleared for session: ">>
                                            \o ClearKey(d)] >>]] >>
            /\ d.task = <<>>
            /\ DOMAIN d.sessionsAfter = DOMAIN d.sessions \ {ClearKey(d)}
            /\ \A k \in DOMAIN d.sessionsAfter : d.sessionsAfter[k] = d.sessions[k]
    /\ (observed.memo # <<>> /\ observed.cur # <<>>) =>
        LET a == observed.memo[1]
            b == observed.cur[1]
        IN  (/\ IsClear(a) /\ IsClear(b) /\ ClearKey(a) = ClearKey(b)
             /\ b.sessions = a.sessionsAfter /\ b.objects = a.objectsAfter
             /\ b.suspended = a.suspended)
            => (/\ b.sessionsAfter = a.sessionsAfter
                /\ b.objectsAfter = a.objectsAfter
                /\ b.written = a.written)

\* the default session was cleared twice in a row: the first clear took it
\* out of the store while a chat was suspended on it, the second found no
\* session
C33_Witness ==
    /\ observed.memo # <<>>
    /\ observed.cur # <<>>
    /\ IsClear(observed.memo[1])
    /\ IsClear(observed.cur[1])
    /\ ClearKey(observed.memo[1]) = DefaultKey
    /\ ClearKey(observed.cur[1]) = DefaultKey
    /\ DefaultKey \in DOMAIN observed.memo[1].sessions
    /\ observed.cur[1].sessions = observed.memo[1].sessionsAfter
    /\ observed.cur[1].objects = observed.memo[1].objectsAfter
    /\ observed.cur[1].suspended = observed.memo[1].suspended
    /\ observed.cur[1].suspended # EmptyBag
    /\ observed.cur[1].sessionsAfter = observed.cur[1].sessions
    /\ Len(observed.cur[1].written) = 1
    /\ Has(observed.cur[1].written[1], "result")

\* the names a tools/list answer advertises; names no tool has; a tools/call
\* request for a name; an outcome of the dispatcher that is the unknown-tool
\* error
Advertised ==
    LET tools == handleToolsList(Request(1, <<"tools/list">>)).result.tools
    IN  { tools[i].name : i \in DOMAIN tools }
Unadvertised ==
    { <<"nope">>, <<"tools/list">>, <<"resources/list">>, <<"generate">>, <<"Chat">>,
      <<"moderate_text ">>, <<"count_tokens">>, <<>> }
CallFor(name) == RequestParams(1, <<"tools/call">>, [name |-> name, arguments |-> <<>>])
UnknownToolOutcome(outcome) ==
    /\ outcome.task = <<>>
    /\ outcome.response # <<>>
    /\ Has(outcome.response[1], "error")
    /\ outcome.response[1].error.code = INVALID_PARAMS
    /\ startsWith(outcome.response[1].error.message, <<"Unknown tool: ">>)

\* C34: when a tools/list line is answered, the dispatcher of tools/call, in
\* that state, answers a name with the unknown-tool error exactly when the
\* answer does not advertise that name: each advertised name reaches its
\* handler, which returns or suspends, and no other name does.  And every
\* tools/call line read is answered with the unknown-tool error exactly when it
\* supplies no advertised name.
C34_AdvertisedIsDispatched ==
    /\ MethodIs(<<"tools/list">>) =>
        /\ ListsTools
        /\ \E advertised \in {{ emitted[1].result.tools[i].name :
                                    i \in DOMAIN emitted[1].result.tools }} :
            /\ advertised = Advertised
            /\ advertised \cap Unadvertised = {}
            /\ \A name \in advertised \cup Unadvertised :
                    \E outcome \in {handleToolsCall(CallFor(name))} :
                        UnknownToolOutcome(outcome) <=> name \notin advertised
    /\ MethodIs(<<"tools/call">>) =>
            (/\ last.task = <<>>
             /\ ErrorEnvelope(LastId, INVALID_PARAMS)
             /\ startsWith(emitted[1].error.message, <<"Unknown tool: ">>))
            <=> ~(NameSupplied /\ last.line.value.params.name \in Advertised)

\* tools/list is answered while the handler of an advertised name, chat, is
\* suspended at the backend and an unadvertised name has been answered with
\* the unknown-tool error
C34_Witness ==
    /\ MethodIs(<<"tools/list">>)
    /\ ListsTools
    /\ <<"chat">> \in { emitted[1].result.tools[i].name : i \in DOMAIN emitted[1].result.tools }
    /\ UnknownToolOutcome(handleToolsCall(CallFor(<<"nope">>)))
    /\ nIn = 3
    /\ nOut = 2
    /\ \E task \in BagToSet(inflight) : task.fn = "chat" /\ inflight = SetToBag({task})

\* the last line read is a tools/call without params, or whose params lack
\* name or arguments; the same line with an empty argument map put in
BareCall ==
    /\ MethodIs(<<"tools/call">>)
    /\ \/ ~Has(last.line.value, "params")
       \/ ~Has(last.line.value.params, "name")
       \/ ~Has(last.line.value.params, "arguments")
WithEmptyArguments(line) ==
    Json([line.value EXCEPT !.params = [name |-> line.value.params.name, arguments |-> <<>>]])

\* C35 (as claimed): a tools/call without params, or whose params lack name or
\* arguments, that is answered when it is read is answered with an error
\* envelope carrying the id of the request.
C35_BareCallIsError ==
    (BareCall /\ last.task = <<>>) =>
        /\ Len(emitted) = 1
        /\ Has(emitted[1], "error")
        /\ ~Has(emitted[1], "result")
        /\ IF LastId = <<>> THEN ~Has(emitted[1], "id")
           ELSE Has(emitted[1], "id") /\ <<emitted[1].id>> = LastId

\* C35 (amended): a tools/call without params, or whose params lack name or
\* arguments, is never answered with the parse error of id 0 and never
\* dropped: it is answered when it is read with one envelope carrying the id
\* of the request, or its handler is suspended at the backend holding that id.
\* Without a name the answer is the unknown-tool error (-32602) and nothing
\* else happens.  With a name and no arguments, what is written, what is
\* suspended and what becomes of the session store are what the same request
\* with an empty argument map gives in the same state: an error for
\* generate_text, a result for clear_chat_history.
C35_BareCallHandled ==
    /\ [](BareCall =>
            /\ emitted # <<parseErrorResponse>>
            /\ IF last.task = <<>>
               THEN /\ Len(emitted) = 1
                    /\ Has(emitted[1], "error") # Has(emitted[1], "result")
                    /\ IF LastId = <<>> THEN ~Has(emitted[1], "id")
                       ELSE Has(emitted[1], "id") /\ <<emitted[1].id>> = LastId
               ELSE /\ emitted = <<>>
                    /\ last.task[1].id = LastId
                    /\ BagIn(last.task[1], inflight))
    /\ [](BareCall /\ ~NameSupplied =>
            /\ ErrorEnvelope(LastId, INVALID_PARAMS)
            /\ emitted[1].error.message = <<"Unknown tool: ", "undefined">>
            /\ last.task = <<>>)
    /\ [][(ReadsLine /\ BareCall' /\ NameSupplied') =>
            \E run \in {lineHandler(WithEmptyArguments(last'.line))} :
                /\ emitted' = run.written
                /\ last'.task = run.task
                /\ chatSessions' = run.chatSessions]_vars
    /\ [](BareCall /\ ToolLine("generate_text") => ErrorEnvelope(LastId, INVALID_PARAMS))
    /\ [](BareCall /\ ToolLine("clear_chat_history") => ResultEnvelope(LastId))

\* a summarize_conversation without arguments is suspended on the default
\* session, on which the chat that created it is suspended too
C35_Witness ==
    /\ BareCall
    /\ ToolLine("summarize_conversation")
    /\ emitted = <<>>
    /\ last.task # <<>>
    /\ last.task[1].id = LastId
    /\ last.task[1].chat = chatSessions[DefaultKey]
    /\ nIn = 3
    /\ nOut = 1
    /\ BagCardinality(inflight) = 2
    /\ \E task \in BagToSet(inflight) : task.fn = "chat" /\ task.chat = chatSessions[DefaultKey]

====
